---- MODULE Spec2Model ----
(***************************************************************************)
(* A model of the URL analyzer backend: the crawler service               *)
(* (services/crawler.go), the URL controller                              *)
(* (controllers/url_controller.go) and the data model (models/models.go). *)
(*                                                                         *)
(* Strings are sequences of tokens: a token is a run of characters that   *)
(* the code never looks inside of ("https", "example.com", "about") or a  *)
(* single delimiter (":", "/", "#").  The empty string is <<>>.           *)
(* The hrefs of the model carry no query ("?") and no userinfo ("@").     *)
(***************************************************************************)
EXTENDS Integers, Sequences, FiniteSets, TLC

\* ------------------------------------------------------------------------
\* Strings
\* ------------------------------------------------------------------------

\* Tokens made of letters only.
AlphaTok ==
    {"https", "http", "HTTPS", "mailto", "about", "x", "page", "dir", "section",
     "a*1980", "a*1981"}
\* Tokens made of letters and dots, starting with a letter.
HostTok == {"example.com", "other.org", "site.com"}
\* Dot segments: made of dots only.
DotTok == {".", ".."}
\* A percent sign not followed by two hex digits.
BadEscape == "%zz"
\* An ASCII control character.
CtlChar == "\t"

Contains(s, t) == \E i \in 1..Len(s) : s[i] = t

\* strings.Index: the first position of t in s, 0 when absent.
IndexOf(s, t) ==
    IF Contains(s, t)
    THEN CHOOSE i \in 1..Len(s) : s[i] = t /\ \A j \in 1..(i - 1) : s[j] # t
    ELSE 0

\* strings.LastIndex: the last position of t in s, 0 when absent.
LastIndexOf(s, t) ==
    IF Contains(s, t)
    THEN CHOOSE i \in 1..Len(s) : s[i] = t /\ \A j \in (i + 1)..Len(s) : s[j] # t
    ELSE 0

\* strings.HasPrefix
HasPrefix(s, p) == Len(s) >= Len(p) /\ SubSeq(s, 1, Len(p)) = p

\* s[i:] of Go, with i counted from 1 here.
From(s, i) == SubSeq(s, i, Len(s))

\* strings.ToLower on the tokens of the model that have upper-case letters.
LowerTok(t) == IF t = "HTTPS" THEN "https" ELSE IF t = "HTML" THEN "html" ELSE t
ToLower(s) == [i \in 1..Len(s) |-> LowerTok(s[i])]

\* net/url escape and unescape in path and fragment mode: a space is the one
\* character of the model that is escaped.
EscapeTok(t) == IF t = " " THEN "%20" ELSE t
UnescapeTok(t) == IF t = "%20" THEN " " ELSE t
Escape(s) == [i \in 1..Len(s) |-> EscapeTok(s[i])]
Unescape(s) == [i \in 1..Len(s) |-> UnescapeTok(s[i])]

\* ------------------------------------------------------------------------
\* net/url as the crawler uses it: url.Parse, URL.ResolveReference, URL.String
\* ------------------------------------------------------------------------

EmptyURL ==
    [Scheme |-> <<>>, Opaque |-> <<>>, Host |-> <<>>, Path |-> <<>>,
     Fragment |-> <<>>, OmitHost |-> FALSE]

ParseError == [err |-> TRUE, url |-> EmptyURL]

\* getScheme: the scheme is what precedes the first ":" when only scheme
\* characters precede it (letters; digits, "+", "-", "." after the first).
SchemeStop(raw, i) ==
    \/ raw[i] = ":"
    \/ raw[i] \notin (AlphaTok \cup HostTok \cup DotTok)
    \/ (i = 1 /\ raw[i] \in DotTok)

GetScheme(raw) ==
    LET stops == {i \in 1..Len(raw) : SchemeStop(raw, i)}
        k == IF stops = {} THEN 0 ELSE CHOOSE i \in stops : \A j \in stops : i <= j
    IN  IF k = 0 \/ raw[k] # ":"
        THEN [err |-> FALSE, scheme |-> <<>>, rest |-> raw]
        ELSE IF k = 1
        THEN [err |-> TRUE, scheme |-> <<>>, rest |-> <<>>]
        ELSE [err |-> FALSE, scheme |-> SubSeq(raw, 1, k - 1), rest |-> From(raw, k + 1)]

\* parseAuthority / parseHost: an escape error, a space, or a port that is
\* not a number make the host invalid; an empty port ("host:") is allowed.
ValidAuthority(a) ==
    /\ ~Contains(a, BadEscape)
    /\ ~Contains(a, " ")
    /\ LastIndexOf(a, ":") \in {0, Len(a)}

\* parse(rawURL, viaRequest = false), for a string without "#".
ParseNoFragment(raw) ==
    LET gs == GetScheme(raw)
        scheme == ToLower(gs.scheme)
        rest == gs.rest
        slash == IndexOf(rest, "/")
        firstSegment == IF slash = 0 THEN rest ELSE SubSeq(rest, 1, slash - 1)
        hasAuthority ==
            /\ scheme # <<>> \/ ~HasPrefix(rest, <<"/", "/", "/">>)
            /\ HasPrefix(rest, <<"/", "/">>)
        afterSlashes == From(rest, 3)
        end == IndexOf(afterSlashes, "/")
        authority == IF end = 0 THEN afterSlashes ELSE SubSeq(afterSlashes, 1, end - 1)
        path == IF ~hasAuthority THEN rest
                ELSE IF end = 0 THEN <<>> ELSE From(afterSlashes, end)
    IN  IF Contains(raw, CtlChar) THEN ParseError
        ELSE IF gs.err THEN ParseError
        ELSE IF ~HasPrefix(rest, <<"/">>) /\ scheme # <<>>
        THEN [err |-> FALSE, url |-> [EmptyURL EXCEPT !.Scheme = scheme, !.Opaque = rest]]
        ELSE IF ~HasPrefix(rest, <<"/">>) /\ Contains(firstSegment, ":") THEN ParseError
        ELSE IF hasAuthority /\ ~ValidAuthority(authority) THEN ParseError
        ELSE IF Contains(path, BadEscape) THEN ParseError
        ELSE [err |-> FALSE,
              url |-> [EmptyURL EXCEPT
                         !.Scheme = scheme,
                         !.Host = IF hasAuthority THEN authority ELSE <<>>,
                         !.Path = Unescape(path),
                         !.OmitHost = ~hasAuthority /\ scheme # <<>> /\ HasPrefix(rest, <<"/">>)]]

\* url.Parse: cuts the fragment off, parses the rest, then sets the fragment.
Parse(raw) ==
    LET h == IndexOf(raw, "#")
        u == IF h = 0 THEN raw ELSE SubSeq(raw, 1, h - 1)
        frag == IF h = 0 THEN <<>> ELSE From(raw, h + 1)
        p == ParseNoFragment(u)
    IN  IF p.err THEN ParseError
        ELSE IF Contains(frag, BadEscape) THEN ParseError
        ELSE [err |-> FALSE, url |-> [p.url EXCEPT !.Fragment = Unescape(frag)]]

\* URL.EscapedPath
EscapedPath(u) == Escape(u.Path)

\* strings.Split(s, "/"): the elements between the slashes, empty ones kept.
RECURSIVE SplitSlash(_)
SplitSlash(s) ==
    LET i == IndexOf(s, "/")
    IN  IF i = 0 THEN <<s>>
        ELSE <<SubSeq(s, 1, i - 1)>> \o SplitSlash(From(s, i + 1))

\* The loop of resolvePath over the elements: dst is the buffer written so
\* far (it starts as "/"), first is the loop's flag.
RECURSIVE ResolveElems(_, _, _)
ResolveElems(elems, dst, first) ==
    IF elems = <<>> THEN dst
    ELSE LET elem == Head(elems)
             str == Tail(dst)
             index == LastIndexOf(str, "/")
         IN  IF elem = <<".">> THEN ResolveElems(Tail(elems), dst, FALSE)
             ELSE IF elem = <<"..">>
             THEN IF index = 0
                  THEN ResolveElems(Tail(elems), <<"/">>, TRUE)
                  ELSE ResolveElems(Tail(elems), <<"/">> \o SubSeq(str, 1, index - 1), first)
             ELSE ResolveElems(Tail(elems),
                               dst \o (IF first THEN <<>> ELSE <<"/">>) \o elem, FALSE)

\* resolvePath(base, ref): ref merged into base's directory, dot segments removed.
ResolvePath(base, ref) ==
    LET full == IF ref = <<>> THEN base
                ELSE IF Head(ref) # "/" THEN SubSeq(base, 1, LastIndexOf(base, "/")) \o ref
                ELSE ref
        elems == SplitSlash(full)
        last == elems[Len(elems)]
        dst == ResolveElems(elems, <<"/">>, TRUE)
        r == IF last = <<".">> \/ last = <<"..">> THEN dst \o <<"/">> ELSE dst
    IN  IF full = <<>> THEN <<>>
        ELSE IF Len(r) > 1 /\ r[2] = "/" THEN Tail(r) ELSE r

\* URL.ResolveReference(ref) with u the base.
ResolveReferenceUnresolved(u, ref) == ref

ResolveReference(u, ref) ==
    LET withScheme == IF ref.Scheme = <<>> THEN [ref EXCEPT !.Scheme = u.Scheme] ELSE ref
        inherit == IF ref.Path = <<>> /\ ref.Fragment = <<>>
                   THEN [withScheme EXCEPT !.Fragment = u.Fragment]
                   ELSE withScheme
    IN  IF ref.Scheme # <<>> \/ ref.Host # <<>>
        THEN [withScheme EXCEPT !.Path = Unescape(ResolvePath(EscapedPath(ref), <<>>))]
        ELSE IF ref.Opaque # <<>>
        THEN [withScheme EXCEPT !.Host = <<>>, !.Path = <<>>]
        ELSE IF ref.Path = <<>> /\ u.Opaque # <<>>
        THEN [inherit EXCEPT !.Opaque = u.Opaque, !.Host = <<>>, !.Path = <<>>]
        ELSE [inherit EXCEPT
                !.Host = u.Host,
                !.Path = Unescape(ResolvePath(EscapedPath(u), EscapedPath(ref)))]

\* URL.String
String(u) ==
    LET scheme == IF u.Scheme # <<>> THEN u.Scheme \o <<":">> ELSE <<>>
        omit == u.OmitHost /\ u.Host = <<>>
        slashes == IF (u.Scheme # <<>> \/ u.Host # <<>>) /\ ~omit
                      /\ (u.Host # <<>> \/ u.Path # <<>>)
                   THEN <<"/", "/">> ELSE <<>>
        host == IF (u.Scheme # <<>> \/ u.Host # <<>>) /\ ~omit THEN u.Host ELSE <<>>
        path == EscapedPath(u)
        sep == IF path # <<>> /\ Head(path) # "/" /\ u.Host # <<>> THEN <<"/">> ELSE <<>>
        slash == IndexOf(path, "/")
        segment == IF slash = 0 THEN path ELSE SubSeq(path, 1, slash - 1)
        dot == IF scheme \o slashes \o host \o sep = <<>> /\ Contains(segment, ":")
               THEN <<".", "/">> ELSE <<>>
        body == IF u.Opaque # <<>> THEN u.Opaque
                ELSE slashes \o host \o sep \o dot \o path
        frag == IF u.Fragment # <<>> THEN <<"#">> \o Escape(u.Fragment) ELSE <<>>
    IN  scheme \o body \o frag

\* ------------------------------------------------------------------------
\* HTML documents: the node tree html.Parse returns
\* ------------------------------------------------------------------------

Attribute(key, val) == [Key |-> key, Val |-> val]
Element(data, attr, kids) == [Type |-> "element", Data |-> data, Attr |-> attr, Kids |-> kids]
TextNode(data) == [Type |-> "text", Data |-> data, Attr |-> <<>>, Kids |-> <<>>]
DoctypeNode(data) == [Type |-> "doctype", Data |-> data, Attr |-> <<>>, Kids |-> <<>>]
DocumentNode(kids) == [Type |-> "document", Data |-> <<>>, Attr |-> <<>>, Kids |-> kids]

\* models.Link
Link(url, type) == [URL |-> url, Type |-> type, StatusCode |-> 0, IsAccessible |-> FALSE]

\* models.CrawlResult as performCrawl initialises it (zero values).
NewCrawlResult ==
    [URLID |-> 0, Title |-> <<>>, HTMLVersion |-> "",
     Headings |-> [k \in 1..6 |-> 0],
     InternalLinks |-> 0, ExternalLinks |-> 0, InaccessibleLinks |-> 0,
     HasLoginForm |-> FALSE, Links |-> <<>>]

\* strings.TrimSpace
WhiteSpace == {" ", "\t", "\n"}
RECURSIVE TrimLeft(_)
TrimLeft(s) == IF s # <<>> /\ Head(s) \in WhiteSpace THEN TrimLeft(Tail(s)) ELSE s
RECURSIVE TrimRight(_)
TrimRight(s) ==
    IF s # <<>> /\ s[Len(s)] \in WhiteSpace THEN TrimRight(SubSeq(s, 1, Len(s) - 1)) ELSE s
TrimSpace(s) == TrimRight(TrimLeft(s))

\* extractTitle: findTitle, the first non-empty title in pre-order.
RECURSIVE findTitle(_)
RECURSIVE findTitleKids(_)
findTitleKids(kids) ==
    IF kids = <<>> THEN <<>>
    ELSE LET title == findTitle(Head(kids))
         IN  IF title # <<>> THEN title ELSE findTitleKids(Tail(kids))
findTitle(n) ==
    IF /\ n.Type = "element" /\ n.Data = "title"
       /\ n.Kids # <<>> /\ Head(n.Kids).Type = "text"
    THEN TrimSpace(Head(n.Kids).Data)
    ELSE findTitleKids(n.Kids)

extractTitle(doc, result) == [result EXCEPT !.Title = findTitle(doc)]

\* extractHTMLVersion: findDoctype, the first non-empty doctype in pre-order.
RECURSIVE findDoctype(_)
RECURSIVE findDoctypeKids(_)
findDoctypeKids(kids) ==
    IF kids = <<>> THEN <<>>
    ELSE LET doctype == findDoctype(Head(kids))
         IN  IF doctype # <<>> THEN doctype ELSE findDoctypeKids(Tail(kids))
findDoctype(n) == IF n.Type = "doctype" THEN n.Data ELSE findDoctypeKids(n.Kids)

\* strings.Contains(s, "html"): the tokens whose characters contain "html".
HtmlTok == {"html", "xhtml"}
IsExactlyHtml(s) == s = <<"html">>

ContainsHtml(s) == \E i \in 1..Len(s) : s[i] \in HtmlTok

extractHTMLVersion(doc, result) ==
    LET doctype == ToLower(findDoctype(doc))
    IN  [result EXCEPT !.HTMLVersion =
            IF ContainsHtml(doctype) \/ doctype = <<"html">> THEN "HTML5" ELSE "Unknown"]

\* extractHeadingCounts
HeadingLevel(data) ==
    CASE data = "h1" -> 1 [] data = "h2" -> 2 [] data = "h3" -> 3
      [] data = "h4" -> 4 [] data = "h5" -> 5 [] data = "h6" -> 6 [] OTHER -> 0

RECURSIVE traverseHeadings(_, _)
RECURSIVE traverseHeadingsKids(_, _)
\* (The test of visited has the counts of a child computed before its
\* siblings are visited, as the code does.)
traverseHeadingsKids(kids, result) ==
    IF kids = <<>> THEN result
    ELSE LET visited == traverseHeadings(Head(kids), result)
         IN  IF visited.Headings[1] >= 0
             THEN traverseHeadingsKids(Tail(kids), visited)
             ELSE visited
traverseHeadingsSkipsNested(n, result) ==
    LET k == IF n.Type = "element" THEN HeadingLevel(n.Data) ELSE 0
    IN  IF k = 0 THEN traverseHeadingsKids(n.Kids, result)
        ELSE [result EXCEPT !.Headings[k] = @ + 1]

traverseHeadings(n, result) ==
    LET k == IF n.Type = "element" THEN HeadingLevel(n.Data) ELSE 0
        counted == IF k = 0 THEN result ELSE [result EXCEPT !.Headings[k] = @ + 1]
    IN  traverseHeadingsKids(n.Kids, counted)

extractHeadingCounts(doc, result) == traverseHeadings(doc, result)

\* extractLinks, line 207: internal when the resolved host is the base's or empty.
IsInternalSameHostOnly(absoluteURL, parsedBaseURL) == absoluteURL.Host = parsedBaseURL.Host

IsInternal(absoluteURL, parsedBaseURL) ==
    absoluteURL.Host = parsedBaseURL.Host \/ absoluteURL.Host = <<>>

\* extractLinks, lines 195-197: an href that does not parse is passed over.
OnParseErrorLoseLinks(result) == [result EXCEPT !.Links = <<>>]

OnParseError(result) == result

\* The loop body with the internal counter incremented for every link.
visitHrefCountsAllInternal(attr, result, parsedBaseURL) ==
    IF attr.Key = "href" /\ attr.Val # <<>> /\ ~HasPrefix(attr.Val, <<"#">>)
    THEN LET linkURL == Parse(attr.Val)
             absoluteURL == ResolveReference(parsedBaseURL, linkURL.url)
             internal == IsInternal(absoluteURL, parsedBaseURL)
         IN  IF linkURL.err THEN OnParseError(result)
             ELSE [result EXCEPT
                     !.Links = Append(@, Link(String(absoluteURL),
                                              IF internal THEN "internal" ELSE "external")),
                     !.InternalLinks = @ + 1,
                     !.ExternalLinks = IF internal THEN @ ELSE @ + 1]
    ELSE result

\* extractLinks: the body of the loop over the attributes of an <a> element.
visitHref(attr, result, parsedBaseURL) ==
    IF attr.Key = "href" /\ attr.Val # <<>> /\ ~HasPrefix(attr.Val, <<"#">>)
    THEN LET linkURL == Parse(attr.Val)
             absoluteURL == ResolveReference(parsedBaseURL, linkURL.url)
             internal == IsInternal(absoluteURL, parsedBaseURL)
         IN  IF linkURL.err THEN OnParseError(result)
             ELSE [result EXCEPT
                     !.Links = Append(@, Link(String(absoluteURL),
                                              IF internal THEN "internal" ELSE "external")),
                     !.InternalLinks = IF internal THEN @ + 1 ELSE @,
                     !.ExternalLinks = IF internal THEN @ ELSE @ + 1]
    ELSE result

RECURSIVE visitAttrs(_, _, _)
visitAttrs(attrs, result, parsedBaseURL) ==
    IF attrs = <<>> THEN result
    ELSE visitAttrs(Tail(attrs), visitHref(Head(attrs), result, parsedBaseURL), parsedBaseURL)

RECURSIVE traverseLinks(_, _, _)
RECURSIVE traverseLinksKids(_, _, _)
traverseLinksKids(kids, result, parsedBaseURL) ==
    IF kids = <<>> THEN result
    ELSE traverseLinksKids(Tail(kids),
                           traverseLinks(Head(kids), result, parsedBaseURL), parsedBaseURL)
traverseLinks(n, result, parsedBaseURL) ==
    LET visited == IF n.Type = "element" /\ n.Data = "a"
                   THEN visitAttrs(n.Attr, result, parsedBaseURL)
                   ELSE result
    IN  traverseLinksKids(n.Kids, visited, parsedBaseURL)

extractLinks(doc, result, baseURL) == traverseLinks(doc, result, Parse(baseURL).url)

\* checkLoginForm: hasPasswordField over a form's subtree, traverse over the document.
RECURSIVE hasPasswordField(_)
RECURSIVE hasPasswordFieldKids(_)
hasPasswordFieldKids(kids) ==
    kids # <<>> /\ (hasPasswordField(Head(kids)) \/ hasPasswordFieldKids(Tail(kids)))
hasPasswordField(formNode) ==
    \/ /\ formNode.Type = "element" /\ formNode.Data = "input"
       /\ \E i \in 1..Len(formNode.Attr) :
             /\ formNode.Attr[i].Key = "type"
             /\ formNode.Attr[i].Val \in {<<"password">>, <<"email">>}
    \/ hasPasswordFieldKids(formNode.Kids)

RECURSIVE traverseForms(_)
RECURSIVE traverseFormsKids(_)
traverseFormsKids(kids) ==
    kids # <<>> /\ (traverseForms(Head(kids)) \/ traverseFormsKids(Tail(kids)))
traverseFormsAnyInput(n) == hasPasswordField(n)

traverseForms(n) ==
    \/ n.Type = "element" /\ n.Data = "form" /\ hasPasswordField(n)
    \/ traverseFormsKids(n.Kids)

checkLoginForm(doc, result) == [result EXCEPT !.HasLoginForm = traverseForms(doc)]

\* performCrawl, lines 97-107: the extraction calls in their order.
extractAll(doc, targetURL) ==
    checkLoginForm(doc,
        extractLinks(doc,
            extractHeadingCounts(doc,
                extractHTMLVersion(doc,
                    extractTitle(doc, NewCrawlResult))), targetURL))


\* ------------------------------------------------------------------------
\* services/url_validation.go
\* ------------------------------------------------------------------------

\* strings.TrimPrefix
TrimPrefix(s, p) == IF HasPrefix(s, p) THEN From(s, Len(p) + 1) ELSE s

HttpsPrefix == <<"https", ":", "/", "/">>
HttpPrefix == <<"http", ":", "/", "/">>
WwwPrefix == <<"www.">>

\* processURL: lower case, the protocol and the "www." prefix removed, then
\* "https://www." put in front.
processURL(rawURL) ==
    HttpsPrefix \o WwwPrefix
        \o TrimPrefix(TrimPrefix(TrimPrefix(ToLower(rawURL), HttpsPrefix), HttpPrefix), WwwPrefix)

\* ValidateAndSanitizeURL: err tells that an error was returned, url is the
\* string returned.
Invalid == [err |-> TRUE, url |-> <<>>]

ValidateAndSanitizeURL(rawURL) ==
    LET trimmed == TrimSpace(rawURL)
        parsed == Parse(processURL(trimmed))
    IN  IF trimmed = <<>> THEN Invalid
        ELSE IF parsed.err THEN Invalid
        ELSE IF parsed.url.Host = <<>> THEN Invalid
        ELSE [err |-> FALSE, url |-> String(parsed.url)]

\* ------------------------------------------------------------------------
\* The inputs of the analysis: hrefs, body items, documents, targets
\* ------------------------------------------------------------------------

\* The number of items in a document body.
MaxItems == 3

HrefAbout == <<"/", "about">>
HrefOther == <<"https", ":", "/", "/", "other.org", "/", "x">>
HrefMalformed == <<BadEscape>>

Hrefs ==
    { <<>>,                                              \* href=""
      <<"#", "section">>,                                \* fragment only
      HrefAbout,                                         \* root-relative
      <<"about">>,                                       \* path-relative
      <<"..", "/", "x">>,                                \* path-relative, dot segment
      <<"https", ":", "/", "/", "example.com", "/", "about">>,
      HrefOther,                                         \* absolute, another host
      <<"/", "/", "other.org", "/", "x">>,               \* protocol-relative
      <<"mailto", ":", "x">>,                            \* opaque, no host
      <<"HTTPS", ":", "/", "/", "example.com", "/", "x">>,
      <<"/", "about", "#", "section">>,                  \* a fragment after a path
      HrefMalformed,                                     \* invalid escape
      <<":", "x">> }                                     \* missing scheme

Anchor(href) == Element("a", <<Attribute("href", href)>>, <<TextNode(<<"x">>)>>)

\* <a> without href, <a> with href after another attribute, <a> with two
\* hrefs, <a> below a <div>, <link href> (an href on another element).
AnchorNoHref == Element("a", <<Attribute("class", <<"x">>)>>, <<>>)
AnchorClassHref == Element("a", <<Attribute("class", <<"x">>), Attribute("href", HrefAbout)>>, <<>>)
AnchorTwoHrefs == Element("a", <<Attribute("href", HrefAbout), Attribute("href", HrefOther)>>, <<>>)
NestedAnchor == Element("div", <<>>, <<TextNode(<<"x">>), Anchor(HrefOther)>>)
LinkElement == Element("link", <<Attribute("href", HrefAbout)>>, <<>>)

Items ==
    {Anchor(h) : h \in Hrefs}
        \cup {AnchorNoHref, AnchorClassHref, AnchorTwoHrefs, NestedAnchor, LinkElement}

ItemSeqs == UNION {[1..n -> Items] : n \in 0..MaxItems}

\* The tree html.Parse builds: a doctype, <html> with <head> and <body>.
BuildDoc(items) ==
    DocumentNode(<<DoctypeNode(<<"html">>),
                   Element("html", <<>>,
                       <<Element("head", <<>>,
                             <<Element("title", <<>>, <<TextNode(<<"x">>)>>)>>),
                         Element("body", <<>>, items)>>)>>)

TargetPage == <<"https", ":", "/", "/", "example.com", "/", "page">>
TargetSite == <<"https", ":", "/", "/", "site.com">>
Targets == {TargetPage, TargetSite}
\* The target as ValidateAndSanitizeURL writes it.
TargetWww == <<"https", ":", "/", "/", "www.", "example.com", "/", "page">>
\* The URLs a server answers at.
Hosted == Targets \cup {TargetWww}

\* ------------------------------------------------------------------------
\* The system: URL records, crawl results, crawl runs
\* ------------------------------------------------------------------------

\* The number of URL records and of crawl runs (goroutines) ever started.
MaxURLs == 2
MaxRuns == 2

\* http.StatusOK; the length ceiling and the first inaccessible status of
\* checkLinkAccessibility.
StatusOK == 200
MaxLinkLength == 2000
FirstInaccessibleStatus == 400

IDs == 1..MaxURLs

\* A target that is no absolute http(s) URL: client.Get fails on it.
BadTarget == <<"example.com">>
UrlStrings == {TargetPage, BadTarget}

\* The statuses a page GET and a link HEAD are answered with.
GetStatuses == {200, 204, 301, 404, 500}
HeadStatuses == {200, 301, 399, 400}

\* A response to a HEAD request: its status and whether it carries a
\* Location header.
Response(code, location) == [code |-> code, location |-> location]

\* What the servers answer to the successive HEAD requests of one
\* client.Head call: the first response is that of the link's server, the
\* next that of the server the Location header names, and so on; the request
\* after the last response of the sequence fails (no connection, timeout).
Redirect == Response(301, TRUE)
HeadExchanges ==
    {<<>>, <<Redirect>>, <<Redirect, Redirect>>}
    \cup {<<Response(code, FALSE)>> : code \in HeadStatuses}
    \cup {<<Redirect, Response(code, FALSE)>> : code \in {200, 400}}

\* The pages served for the target.
PageNoLinks == BuildDoc(<<>>)
PageTwoLinks == BuildDoc(<<Anchor(HrefAbout), Anchor(<<"mailto", ":", "x">>)>>)
Pages == {PageNoLinks, PageTwoLinks}
\* A page with one link, which is not checked.
PageMailto == BuildDoc(<<Anchor(<<"mailto", ":", "x">>)>>)

\* The number of links of a page.
MaxLinks == 2

\* Hrefs resolving to https://example.com/about, https://other.org/x,
\* http://other.org/x, mailto:x, http:x (scheme http, no "//"), and to
\* https://example.com/aa...a of 2000 and of 2001 characters.
VerifyHrefs ==
    { HrefAbout,
      HrefOther,
      <<"http", ":", "/", "/", "other.org", "/", "x">>,
      <<"mailto", ":", "x">>,
      <<"http", ":", "x">>,
      <<"/", "a*1980">>,
      <<"/", "a*1981">> }

VerifyPages ==
    {BuildDoc(items) : items \in UNION {[1..n -> {Anchor(h) : h \in VerifyHrefs}] : n \in 0..MaxLinks}}

\* len(s) in characters.
TokLen(t) ==
    CASE t \in {":", "/", "#", ".", " ", "\t", "x"} -> 1
      [] t = ".." -> 2
      [] t \in {"%20", "%zz", "dir"} -> 3
      [] t \in {"http", "page", "html", "www."} -> 4
      [] t \in {"https", "HTTPS", "about"} -> 5
      [] t = "mailto" -> 6
      [] t = "section" -> 7
      [] t = "site.com" -> 8
      [] t = "other.org" -> 9
      [] t = "example.com" -> 11
      [] t = "a*1980" -> 1980
      [] t = "a*1981" -> 1981

RECURSIVE StrLen(_)
StrLen(s) == IF s = <<>> THEN 0 ELSE TokLen(Head(s)) + StrLen(Tail(s))

\* models.URL: a row of the urls table (exists: created and not deleted).
NoURL == [exists |-> FALSE, URL |-> <<>>, Status |-> ""]

\* A goroutine running CrawlURL(id).  Status and URL are urlModel as read;
\* gets and heads count the requests issued, checks is the history of the
\* link checks (which link, whether a HEAD was issued and answered), wire
\* what went over the network in each client.Head call; resp is the status of the GET's
\* response (0: none); crawl is what performCrawl returned ("pending" before
\* it returns) and crawlErr why; err is what CrawlURL returned; created counts
\* the CrawlResult rows the run inserted; stmtFailed tells that a First or
\* Update statement of the run failed.
NewRun(id) ==
    [id |-> id, pc |-> "find", Status |-> "", URL |-> <<>>,
     gets |-> 0, resp |-> 0, body |-> <<>>, parsed |-> FALSE,
     result |-> <<>>, i |-> 0, inaccessibleCount |-> 0, heads |-> 0,
     crawl |-> "pending", crawlErr |-> "", err |-> "",
     created |-> 0, stmtFailed |-> FALSE, checks |-> <<>>, wire |-> <<>>]

VARIABLES
    urls,          \* the urls table: ID -> row
    lastID,        \* the last ID the urls table gave out
    crawlResults,  \* the crawl_results table with its links: the rows, in insertion order
    runs,          \* the CrawlURL goroutines started so far
    web,           \* the site the target's server serves: "site", "links" or "api"
    adds,          \* the AddURL requests received so far
    aItems,        \* analysis alone: the body items of the document
    aTarget,       \* analysis alone: the target URL
    aResult,       \* analysis alone: the CrawlResult, once extracted
    aDone          \* analysis alone: extraction has run

vars == <<urls, lastID, crawlResults, runs, web, adds, aItems, aTarget, aResult, aDone>>
system == <<urls, lastID, crawlResults, runs, web, adds>>
analysis == <<aItems, aTarget, aResult, aDone>>

\* The pages a GET of the target is answered with.
Served ==
    IF web = "links" THEN VerifyPages ELSE IF web = "api" THEN {PageMailto} ELSE Pages

\* What the HEAD requests of a link are answered with: redirects on the
\* site "links".
Exchanges ==
    IF web = "links" THEN HeadExchanges
    ELSE {exchange \in HeadExchanges : Len(exchange) <= 1 /\ exchange # <<Redirect>>}

\* The statuses a GET of the target is answered with.
Answered == IF web = "api" THEN {200, 404} ELSE GetStatuses

InitSystem ==
    /\ urls = [id \in IDs |-> NoURL]
    /\ lastID = 0
    /\ crawlResults = <<>>
    /\ runs = <<>>
    /\ web = "site"
    /\ adds = <<>>

InitAnalysisIdle ==
    /\ aItems = <<>>
    /\ aTarget = TargetPage
    /\ aResult = NewCrawlResult
    /\ aDone = FALSE

Init == InitSystem /\ InitAnalysisIdle

\* The Update without its Where clause: every row is written.
UpdateStatusOfAll(id, status) ==
    urls' = [k \in IDs |-> IF urls[k].exists THEN [urls[k] EXCEPT !.Status = status]
                           ELSE urls[k]]

\* db.Model(...).Update("status", status): no row is written when the URL
\* does not exist.
UpdateStatus(id, status) ==
    urls' = [urls EXCEPT ![id].Status = IF urls[id].exists THEN status ELSE @]

\* go func() { CrawlURL(id) }()
Spawn(id) == runs' = Append(runs, NewRun(id))

\* ---- controllers/url_controller.go ----

\* AddURL: 409 when the URL string is stored already; else the row is
\* created with status "running" and the crawl is started (ok: the insert
\* succeeds).
AddURL(url, ok) ==
    /\ lastID < MaxURLs
    /\ Len(runs) < MaxRuns
    /\ IF ok /\ ~\E id \in IDs : urls[id].exists /\ urls[id].URL = url
       THEN /\ urls' = [urls EXCEPT ![lastID + 1] =
                           [exists |-> TRUE, URL |-> url, Status |-> "running"]]
            /\ lastID' = lastID + 1
            /\ Spawn(lastID + 1)
       ELSE UNCHANGED <<urls, lastID, runs>>
    /\ UNCHANGED <<crawlResults, web, adds, analysis>>

\* StartProcessing: 404 when the URL does not exist; else the status is set
\* to "running" and the crawl is started (ok: the statements succeed).
StartProcessing(id, ok) ==
    /\ Len(runs) < MaxRuns
    /\ IF ok /\ urls[id].exists
       THEN UpdateStatus(id, "running") /\ Spawn(id)
       ELSE UNCHANGED <<urls, runs>>
    /\ UNCHANGED <<lastID, crawlResults, web, adds, analysis>>

\* StopProcessing: 404 when the URL does not exist; else the status is set
\* to "queued".
StopProcessing(id, ok) ==
    /\ IF ok /\ urls[id].exists
       THEN UpdateStatus(id, "queued")
       ELSE UNCHANGED urls
    /\ UNCHANGED <<lastID, crawlResults, runs, web, adds, analysis>>

\* ---- services/crawler.go: CrawlURL, one step per statement or request ----

\* The crawl results stored for the URL id, in insertion order.
StoredResultsOf(id) == SelectSeq(crawlResults, LAMBDA result : result.URLID = id)

\* The goroutine r exists and stands at pc.
At(r, pc) == r \in DOMAIN runs /\ runs[r].pc = pc

SetRun(r, run) == runs' = [runs EXCEPT ![r] = run]
Finish(run, err) == [run EXCEPT !.pc = "done", !.err = err, !.body = <<>>]

\* Lines 35-43: db.First, and the return when the URL is completed already.
CrawlFind(r, ok) ==
    LET run == runs[r]
        urlModel == urls[run.id]
    IN  /\ At(r, "find")
        /\ IF ~ok \/ ~urlModel.exists
           THEN SetRun(r, [Finish(run, "find") EXCEPT !.stmtFailed = TRUE])
           ELSE IF urlModel.Status = "completed"
           THEN SetRun(r, [Finish(run, "") EXCEPT !.Status = urlModel.Status, !.URL = urlModel.URL])
           ELSE SetRun(r, [run EXCEPT
                             !.Status = urlModel.Status, !.URL = urlModel.URL,
                             !.pc = IF urlModel.Status # "running" THEN "mark" ELSE "get"])
        /\ UNCHANGED <<urls, lastID, crawlResults, web, adds, analysis>>

\* Lines 46-50: the status is set to "running" unless it is already.
CrawlMark(r, ok) ==
    LET run == runs[r]
    IN  /\ At(r, "mark")
        /\ IF ok
           THEN UpdateStatus(run.id, "running") /\ SetRun(r, [run EXCEPT !.pc = "get"])
           ELSE /\ SetRun(r, [Finish(run, "mark") EXCEPT !.stmtFailed = TRUE])
                /\ UNCHANGED urls
        /\ UNCHANGED <<lastID, crawlResults, web, adds, analysis>>

\* Line 87: the only status performCrawl goes on with.
StatusAcceptedAny2xx(code) == code \in 200..299

StatusAccepted(code) == code = StatusOK

\* Lines 80-83: client.Get returned an error.
GetFailedRetries(run) == [run EXCEPT !.gets = @ + 1]

GetFailed(run) ==
    [run EXCEPT !.gets = @ + 1, !.resp = 0,
                !.crawl = "error", !.crawlErr = "fetch", !.pc = "fail"]

\* Lines 80-89: client.Get answered with a status and a body.
GetAnswered(run, code, page) ==
    IF StatusAccepted(code)
    THEN [run EXCEPT !.gets = @ + 1, !.resp = code, !.body = <<page>>, !.pc = "parse"]
    ELSE [run EXCEPT !.gets = @ + 1, !.resp = code,
                     !.crawl = "error", !.crawlErr = "status", !.pc = "fail"]

\* performCrawl, lines 80-89: the GET of the target (answered: a response came).
CrawlGet(r) ==
    LET run == runs[r]
    IN  /\ At(r, "get")
        /\ \/ SetRun(r, GetFailed(run))
           \/ /\ run.URL \in Hosted
              /\ \E code \in Answered, page \in Served :
                    SetRun(r, GetAnswered(run, code, page))
        /\ UNCHANGED <<urls, lastID, crawlResults, web, adds, analysis>>

\* performCrawl, lines 92-107: html.Parse (ok: the body was read), then the
\* extraction.
CrawlParse(r, ok) ==
    LET run == runs[r]
        result == extractAll(run.body[1], run.URL)
    IN  /\ At(r, "parse")
        /\ SetRun(r, IF ok
                     THEN [run EXCEPT !.parsed = TRUE,
                                      !.result = <<result>>,
                                      !.i = 1, !.inaccessibleCount = 0, !.pc = "links",
                                      !.checks = <<>>, !.wire = <<>>]
                     ELSE [run EXCEPT !.crawl = "error", !.crawlErr = "parse", !.pc = "fail"])
        /\ UNCHANGED <<urls, lastID, crawlResults, web, adds, analysis>>

\* checkLinkAccessibility, line 276: links that are not checked.
UnverifiableFrom2000(link) ==
    \/ StrLen(link.URL) >= MaxLinkLength
    \/ /\ ~HasPrefix(link.URL, <<"http", ":", "/", "/">>)
       /\ ~HasPrefix(link.URL, <<"https", ":", "/", "/">>)

Unverifiable(link) ==
    \/ StrLen(link.URL) > MaxLinkLength
    \/ /\ ~HasPrefix(link.URL, <<"http", ":", "/", "/">>)
       /\ ~HasPrefix(link.URL, <<"https", ":", "/", "/">>)

\* One turn of the loop, as the history keeps it: the link's index, whether
\* a HEAD request was issued, whether it was answered, and with what status.
Check(link, head, answered, code) ==
    [link |-> link, head |-> head, answered |-> answered, code |-> code]

\* Lines 277-280 and 286-289: the link is marked inaccessible and counted.
MarkInaccessibleUncounted(run) ==
    [run EXCEPT !.result[1].Links[run.i].StatusCode = 0,
                !.result[1].Links[run.i].IsAccessible = FALSE,
                !.i = @ + 1]

MarkInaccessibleRemoves(run) ==
    [run EXCEPT !.result[1].Links =
                    SubSeq(@, 1, run.i - 1) \o SubSeq(@, run.i + 1, Len(@)),
                !.inaccessibleCount = @ + 1]

MarkInaccessible(run) ==
    [run EXCEPT !.result[1].Links[run.i].StatusCode = 0,
                !.result[1].Links[run.i].IsAccessible = FALSE,
                !.inaccessibleCount = @ + 1,
                !.i = @ + 1]

\* Lines 276-281: the link is not checked.
Skipped(run) ==
    [MarkInaccessible(run) EXCEPT !.checks = Append(@, Check(run.i, FALSE, FALSE, 0))]

\* Lines 284-290: client.Head returned an error.
HeadFailedAborts(run) ==
    [run EXCEPT !.heads = @ + 1, !.result = <<>>,
                !.checks = Append(@, Check(run.i, TRUE, FALSE, 0)),
                !.crawl = "error", !.crawlErr = "link", !.pc = "fail"]

HeadFailedRetries(run) ==
    [run EXCEPT !.heads = @ + 1, !.checks = Append(@, Check(run.i, TRUE, FALSE, 0))]

HeadFailed(run) ==
    [MarkInaccessible(run) EXCEPT !.heads = @ + 1,
                                  !.checks = Append(@, Check(run.i, TRUE, FALSE, 0))]

\* Lines 284-297: client.Head answered with a status.
HeadAnsweredUpTo400(run, code) ==
    LET accessible == code <= FirstInaccessibleStatus
    IN  [run EXCEPT !.heads = @ + 1,
                    !.checks = Append(@, Check(run.i, TRUE, TRUE, code)),
                    !.result[1].Links[run.i].StatusCode = code,
                    !.result[1].Links[run.i].IsAccessible = accessible,
                    !.inaccessibleCount = IF accessible THEN @ ELSE @ + 1,
                    !.i = @ + 1]

HeadAnswered(run, code) ==
    LET accessible == code < FirstInaccessibleStatus
    IN  [run EXCEPT !.heads = @ + 1,
                    !.checks = Append(@, Check(run.i, TRUE, TRUE, code)),
                    !.result[1].Links[run.i].StatusCode = code,
                    !.result[1].Links[run.i].IsAccessible = accessible,
                    !.inaccessibleCount = IF accessible THEN @ ELSE @ + 1,
                    !.i = @ + 1]

\* net/http, Client.Head with the client of NewCrawlerService (no
\* CheckRedirect): a response with a redirect status and a Location header
\* is followed by a HEAD request to the new location, up to
\* MaxRedirectRequests requests; any other response is returned as it is.
\* sent is the number of requests issued before this one.
MaxRedirectRequests == 10
RedirectStatuses == {301, 302, 303, 307, 308}

ShouldRedirect(resp) == resp.code \in RedirectStatuses /\ resp.location

RECURSIVE ClientDo(_, _)
ClientDo(exchange, sent) ==
    IF exchange = <<>>
    THEN [err |-> TRUE, code |-> 0, requests |-> sent + 1]
    ELSE IF ShouldRedirect(Head(exchange))
    THEN IF sent + 1 >= MaxRedirectRequests
         THEN [err |-> TRUE, code |-> 0, requests |-> sent + 1]
         ELSE ClientDo(Tail(exchange), sent + 1)
    ELSE [err |-> FALSE, code |-> Head(exchange).code, requests |-> sent + 1]

ClientHead(exchange) == ClientDo(exchange, 0)

\* What went over the network in one client.Head call: the link's index,
\* the number of HEAD requests issued and the status of the first response
\* (0: none).
Wire(link, exchange) ==
    [link |-> link, requests |-> ClientHead(exchange).requests,
     first |-> IF exchange = <<>> THEN 0 ELSE Head(exchange).code]

\* checkLinkAccessibility, lines 272-298: one turn of the loop.
CrawlCheckLink(r, exchange) ==
    LET run == runs[r]
        link == run.result[1].Links[run.i]
        head == ClientHead(exchange)
        checked == IF head.err THEN HeadFailed(run) ELSE HeadAnswered(run, head.code)
    IN  /\ At(r, "links")
        /\ run.i <= Len(run.result[1].Links)
        /\ SetRun(r, IF Unverifiable(link) THEN Skipped(run)
                     ELSE [checked EXCEPT !.wire = Append(@, Wire(run.i, exchange))])
        /\ UNCHANGED <<urls, lastID, crawlResults, web, adds, analysis>>

\* performCrawl returning while links are still to be checked.
CrawlReturnEarly(r) ==
    LET run == runs[r]
    IN  /\ At(r, "links")
        /\ SetRun(r, [run EXCEPT
                        !.result[1].InaccessibleLinks = run.inaccessibleCount,
                        !.crawl = "ok", !.pc = "save"])
        /\ UNCHANGED <<urls, lastID, crawlResults, web, adds, analysis>>

\* Lines 300 and 112: the loop is over, performCrawl returns the result.
CrawlReturn(r) ==
    LET run == runs[r]
    IN  /\ At(r, "links")
        /\ run.i > Len(run.result[1].Links)
        /\ SetRun(r, [run EXCEPT
                        !.result[1].InaccessibleLinks = run.inaccessibleCount,
                        !.crawl = "ok", !.pc = "save"])
        /\ UNCHANGED <<urls, lastID, crawlResults, web, adds, analysis>>

\* Lines 56 and 64: the status written when the crawl or the save failed.
FailureStatusRunning == "running"

FailureStatus == "error"

\* Lines 54-58: performCrawl returned an error; the Update's own error is ignored.
CrawlFail(r, ok) ==
    LET run == runs[r]
    IN  /\ At(r, "fail")
        /\ IF ok THEN UpdateStatus(run.id, FailureStatus) ELSE UNCHANGED urls
        /\ SetRun(r, [Finish(run, "crawl") EXCEPT !.stmtFailed = ~ok])
        /\ UNCHANGED <<lastID, crawlResults, web, adds, analysis>>

\* Lines 61-62: the result is given the URL's ID and inserted with its links.
CrawlSave(r, ok) ==
    LET run == runs[r]
        result == [run.result[1] EXCEPT !.URLID = run.id]
    IN  /\ At(r, "save")
        /\ IF ok
           THEN /\ crawlResults' = Append(crawlResults, result)
                /\ SetRun(r, [run EXCEPT !.result = <<result>>, !.created = @ + 1,
                                         !.pc = "complete"])
           ELSE /\ SetRun(r, [run EXCEPT !.result = <<result>>, !.pc = "savefail"])
                /\ UNCHANGED crawlResults
        /\ UNCHANGED <<urls, lastID, web, adds, analysis>>

\* Lines 63-65: the insert failed; the Update's own error is ignored.
CrawlSaveFail(r, ok) ==
    LET run == runs[r]
    IN  /\ At(r, "savefail")
        /\ IF ok THEN UpdateStatus(run.id, FailureStatus) ELSE UNCHANGED urls
        /\ SetRun(r, [Finish(run, "save") EXCEPT !.stmtFailed = ~ok])
        /\ UNCHANGED <<lastID, crawlResults, web, adds, analysis>>

\* Lines 69-73: the URL is marked completed.
CrawlComplete(r, ok) ==
    LET run == runs[r]
    IN  /\ At(r, "complete")
        /\ IF ok
           THEN UpdateStatus(run.id, "completed") /\ SetRun(r, Finish(run, ""))
           ELSE /\ SetRun(r, [Finish(run, "complete") EXCEPT !.stmtFailed = TRUE])
                /\ UNCHANGED urls
        /\ UNCHANGED <<lastID, crawlResults, web, adds, analysis>>

\* A step of the goroutine r.
RunStep(r) ==
       \/ \E ok \in BOOLEAN : CrawlFind(r, ok)
       \/ \E ok \in BOOLEAN : CrawlMark(r, ok)
       \/ CrawlGet(r)
       \/ \E ok \in BOOLEAN : CrawlParse(r, ok)
       \/ \E exchange \in Exchanges : CrawlCheckLink(r, exchange)
       \/ CrawlReturn(r)
       \/ \E ok \in BOOLEAN : CrawlFail(r, ok)
       \/ \E ok \in BOOLEAN : CrawlSave(r, ok)
       \/ \E ok \in BOOLEAN : CrawlSaveFail(r, ok)
       \/ \E ok \in BOOLEAN : CrawlComplete(r, ok)

Request ==
    \/ \E url \in UrlStrings, ok \in BOOLEAN : AddURL(url, ok)
    \/ \E id \in IDs, ok \in BOOLEAN : StartProcessing(id, ok)
    \/ \E id \in IDs, ok \in BOOLEAN : StopProcessing(id, ok)

Next == Request \/ \E r \in 1..MaxRuns : RunStep(r)

Spec == Init /\ [][Next]_vars

\* The goroutines are scheduled and every request they issue returns.
SpecLive == Spec /\ \A r \in 1..MaxRuns : WF_vars(RunStep(r))

\* ------------------------------------------------------------------------
\* The URL API: the handlers of the URL controller, requests in any order
\* ------------------------------------------------------------------------

\* The number of AddURL requests.
MaxAdds == 2

\* What the requests carry as "url".
RawURLs == {TargetPage, BadTarget, <<" ">>, <<>>}

\* An AddURL request: url is the string looked up and stored, pc the
\* handler's position, code the status it answered with (0: not yet),
\* lookup what its query for the URL gave ("": not run), stored whether a
\* record with the URL existed when the handler answered.
NewAdd(url, pc, code) ==
    [url |-> url, pc |-> pc, code |-> code, lookup |-> "", stored |-> FALSE]

AtAdd(h, pc) == h \in DOMAIN adds /\ adds[h].pc = pc
SetAdd(h, add) == adds' = [adds EXCEPT ![h] = add]

\* AddURL of url_controller.go, lines 28-37: the request is bound; "url" is
\* required, and stored as it came.
AddURLBind(raw) ==
    /\ Len(adds) < MaxAdds
    /\ adds' = Append(adds, IF raw = <<>> THEN NewAdd(raw, "done", 400)
                            ELSE NewAdd(raw, "lookup", 0))
    /\ UNCHANGED <<urls, lastID, crawlResults, runs, web, analysis>>

\* AddURL in its revision with the validation service: the request is
\* bound, then the URL validated and sanitized.
AddURLValidate(raw) ==
    LET sanitized == ValidateAndSanitizeURL(raw)
    IN  /\ Len(adds) < MaxAdds
        /\ adds' = Append(adds, IF raw = <<>> \/ sanitized.err THEN NewAdd(raw, "done", 400)
                                ELSE NewAdd(sanitized.url, "lookup", 0))
        /\ UNCHANGED <<urls, lastID, crawlResults, runs, web, analysis>>

\* Where("url = ?", ...).First: finds a row that is not deleted (ok: the
\* query succeeds).
Stored(url) == \E id \in IDs : urls[id].exists /\ urls[id].URL = url

\* The unique index of urls.url: deleted rows (deleted_at set) stay in it.
Indexed(url) == \E id \in 1..lastID : urls[id].URL = url

\* Lines 39-47: 409 when the URL is found.
AddURLLookup(h, ok) ==
    /\ AtAdd(h, "lookup")
    /\ SetAdd(h, IF ok /\ Stored(adds[h].url)
                  THEN [adds[h] EXCEPT !.pc = "done", !.code = 409,
                                       !.lookup = "found", !.stored = TRUE]
                  ELSE [adds[h] EXCEPT !.pc = "create",
                                       !.lookup = IF ok THEN "absent" ELSE "failed"])
    /\ UNCHANGED <<urls, lastID, crawlResults, runs, web, analysis>>

\* The insert succeeds whatever the index holds.
InsertableAnyway(url, ok) == ok

\* db.Create(&url): fails when the statement fails or the URL is in the
\* unique index already.
Insertable(url, ok) == ok /\ ~Indexed(url)

\* Lines 49-74: the row is created with status "running" and the crawl
\* started (201), or 500 when the insert fails.
AddURLCreate(h, ok) ==
    /\ AtAdd(h, "create")
    /\ IF Insertable(adds[h].url, ok)
       THEN /\ lastID < MaxURLs
            /\ Len(runs) < MaxRuns
            /\ urls' = [urls EXCEPT ![lastID + 1] =
                           [exists |-> TRUE, URL |-> adds[h].url, Status |-> "running"]]
            /\ lastID' = lastID + 1
            /\ Spawn(lastID + 1)
            /\ SetAdd(h, [adds[h] EXCEPT !.pc = "done", !.code = 201])
       ELSE /\ SetAdd(h, [adds[h] EXCEPT !.pc = "done", !.code = 500,
                                         !.stored = Stored(adds[h].url)])
            /\ UNCHANGED <<urls, lastID, runs>>
    /\ UNCHANGED <<crawlResults, web, analysis>>

\* db.Delete on models.URL, which has a DeletedAt field: the rows are kept
\* and marked deleted; no statement touches crawl_results or links.
SoftDelete(ids) ==
    urls' = [id \in IDs |-> IF id \in ids THEN [urls[id] EXCEPT !.exists = FALSE] ELSE urls[id]]

\* DeleteURL, lines 116-153: 404 when the URL does not exist.
DeleteURL(id, ok) ==
    /\ IF ok /\ urls[id].exists THEN SoftDelete({id}) ELSE UNCHANGED urls
    /\ UNCHANGED <<lastID, crawlResults, runs, web, adds, analysis>>

\* The IDs of a set in increasing order.
RECURSIVE Ascending(_)
Ascending(ids) ==
    IF ids = {} THEN <<>>
    ELSE LET least == CHOOSE i \in ids : \A j \in ids : i <= j
         IN  <<least>> \o Ascending(ids \ {least})

Existing(ids) == {id \in ids : urls[id].exists}

\* go func(urlID) { CrawlURL(urlID) }(url.ID), once for each URL.
SpawnAll(ids) ==
    runs' = runs \o [k \in 1..Cardinality(ids) |-> NewRun(Ascending(ids)[k])]

\* BatchStartProcessing, lines 156-213: the URLs found are set to "running"
\* and crawled; started are those whose Update succeeded.
BatchStartProcessing(ids, started) ==
    /\ started \subseteq Existing(ids)
    /\ Len(runs) + Cardinality(started) <= MaxRuns
    /\ urls' = [id \in IDs |-> IF id \in started
                                THEN [urls[id] EXCEPT !.Status = "running"] ELSE urls[id]]
    /\ SpawnAll(started)
    /\ UNCHANGED <<lastID, crawlResults, web, adds, analysis>>

\* BatchStopProcessing, lines 216-249: one Update for all the IDs.
BatchStopProcessing(ids, ok) ==
    /\ urls' = [id \in IDs |-> IF ok /\ id \in Existing(ids)
                                THEN [urls[id] EXCEPT !.Status = "queued"] ELSE urls[id]]
    /\ UNCHANGED <<lastID, crawlResults, runs, web, adds, analysis>>

\* BatchDeleteURLs, lines 252-285: one Delete for all the IDs.
BatchDeleteURLs(ids, ok) ==
    /\ IF ok THEN SoftDelete(Existing(ids)) ELSE UNCHANGED urls
    /\ UNCHANGED <<lastID, crawlResults, runs, web, adds, analysis>>

\* Where("url_id = ?", id).Delete(&models.CrawlResult{}), after the links
\* of those results are deleted.
WithoutResultsOf(results, ids) ==
    SelectSeq(results, LAMBDA result : result.URLID \notin ids)

\* BatchRerunAnalysis: for each URL found, its crawl results and their
\* links are deleted, then the status is set to "running" and the crawl
\* started (ok: the Updates succeed).
BatchRerunAnalysis(ids, ok) ==
    LET found == Existing(ids)
    IN  /\ crawlResults' = WithoutResultsOf(crawlResults, found)
        /\ IF ok
           THEN /\ Len(runs) + Cardinality(found) <= MaxRuns
                /\ urls' = [id \in IDs |-> IF id \in found
                                            THEN [urls[id] EXCEPT !.Status = "running"]
                                            ELSE urls[id]]
                /\ SpawnAll(found)
           ELSE UNCHANGED <<urls, runs>>
        /\ UNCHANGED <<lastID, web, adds, analysis>>

IDSets == SUBSET IDs \ {{}}

\* Two URLs have been added and the crawl of each has failed at the fetch:
\* both are in status "error", no result is stored, no crawl is running.
InitAPI ==
    /\ urls = [id \in IDs |-> IF id = 1
                               THEN [exists |-> TRUE, URL |-> TargetPage, Status |-> "error"]
                               ELSE IF id = 2
                               THEN [exists |-> TRUE, URL |-> TargetSite, Status |-> "error"]
                               ELSE NoURL]
    /\ lastID = 2
    /\ crawlResults = <<>>
    /\ runs = <<>>
    /\ web = "api"
    /\ adds = <<>>
    /\ InitAnalysisIdle

RequestAPI ==
    \/ \E id \in IDs, ok \in BOOLEAN : DeleteURL(id, ok)
    \/ \E id \in IDs, ok \in BOOLEAN : StartProcessing(id, ok)
    \/ \E id \in IDs, ok \in BOOLEAN : StopProcessing(id, ok)
    \/ \E ids \in IDSets, started \in SUBSET IDs : BatchStartProcessing(ids, started)
    \/ \E ids \in IDSets, ok \in BOOLEAN : BatchStopProcessing(ids, ok)
    \/ \E ids \in IDSets, ok \in BOOLEAN : BatchDeleteURLs(ids, ok)
    \/ \E ids \in IDSets, ok \in BOOLEAN : BatchRerunAnalysis(ids, ok)

NextAPI == RequestAPI \/ \E r \in 1..MaxRuns : RunStep(r)

SpecAPI == InitAPI /\ [][NextAPI]_vars

\* ------------------------------------------------------------------------
\* Two CrawlURL runs on two URLs, in any interleaving
\* ------------------------------------------------------------------------

\* The state two AddURL requests leave: each URL is "running" and its crawl
\* is started; or "queued", when a stop request came before the crawl's
\* first statement.
InitPair ==
    /\ \E first, second \in {"running", "queued"} :
          urls = [id \in IDs |-> IF id = 1
                                 THEN [exists |-> TRUE, URL |-> TargetPage, Status |-> first]
                                 ELSE IF id = 2
                                 THEN [exists |-> TRUE, URL |-> TargetSite, Status |-> second]
                                 ELSE NoURL]
    /\ lastID = 2
    /\ crawlResults = <<>>
    /\ runs = <<NewRun(1), NewRun(2)>>
    /\ web = "site"
    /\ adds = <<>>
    /\ InitAnalysisIdle

NextPair == \E r \in 1..2 : RunStep(r)

SpecPair == InitPair /\ [][NextPair]_vars

\* ------------------------------------------------------------------------
\* Adding URLs: AddURL requests in any order and interleaving, and deletions
\* ------------------------------------------------------------------------

NextAdd ==
    \/ \E raw \in RawURLs : AddURLBind(raw)
    \/ \E raw \in RawURLs : AddURLValidate(raw)
    \/ \E h \in 1..MaxAdds, ok \in BOOLEAN : AddURLLookup(h, ok)
    \/ \E h \in 1..MaxAdds, ok \in BOOLEAN : AddURLCreate(h, ok)
    \/ \E id \in IDs, ok \in BOOLEAN : DeleteURL(id, ok)

SpecAdd == Init /\ [][NextAdd]_vars

\* ------------------------------------------------------------------------
\* One CrawlURL run that no request touches
\* ------------------------------------------------------------------------

\* A result of an earlier run of the URL.
EarlierResult == [NewCrawlResult EXCEPT !.URLID = 1, !.HTMLVersion = "HTML5"]

InitSolo ==
    /\ \E url \in UrlStrings, status \in {"queued", "running", "completed", "error"} :
          urls = [id \in IDs |-> IF id = 1
                                 THEN [exists |-> TRUE, URL |-> url, Status |-> status]
                                 ELSE NoURL]
    /\ lastID = 1
    /\ crawlResults \in {<<>>, <<EarlierResult>>}
    /\ runs = <<NewRun(1)>>
    /\ web = "site"
    /\ adds = <<>>
    /\ InitAnalysisIdle

NextSolo == RunStep(1)

SpecSolo == InitSolo /\ [][NextSolo]_vars

\* ------------------------------------------------------------------------
\* One CrawlURL run on pages whose links differ in scheme and length
\* ------------------------------------------------------------------------

\* The state AddURL leaves: the URL is "running" and its crawl is started;
\* or "queued", when a stop request came before the crawl's first statement.
InitVerify ==
    /\ \E status \in {"running", "queued"} :
          urls = [id \in IDs |-> IF id = 1
                                 THEN [exists |-> TRUE, URL |-> TargetPage, Status |-> status]
                                 ELSE NoURL]
    /\ lastID = 1
    /\ crawlResults = <<>>
    /\ runs = <<NewRun(1)>>
    /\ web = "links"
    /\ adds = <<>>
    /\ InitAnalysisIdle

NextVerify == RunStep(1)

SpecVerify == InitVerify /\ [][NextVerify]_vars

\* ------------------------------------------------------------------------
\* The analysis alone: extraction applied to a document and a target
\* ------------------------------------------------------------------------

InitAnalyze ==
    /\ InitSystem
    /\ aItems \in ItemSeqs
    /\ aTarget \in Targets
    /\ aResult = NewCrawlResult
    /\ aDone = FALSE

Analyze ==
    /\ ~aDone
    /\ aResult' = extractAll(BuildDoc(aItems), aTarget)
    /\ aDone' = TRUE
    /\ UNCHANGED <<aItems, aTarget, system>>

NextAnalyze == Analyze

SpecAnalyze == InitAnalyze /\ [][NextAnalyze]_vars

\* ------------------------------------------------------------------------
\* The analysis alone: pages with doctypes, titles, headings and forms
\* ------------------------------------------------------------------------

\* The number of parts of a page besides its doctype.
MaxParts == 3

\* A part of a page: a node and where html.Parse puts it ("top": a child of
\* the document, "head", "body").
Part(at, node) == [at |-> at, node |-> node]

\* <!DOCTYPE html>, <!DOCTYPE HTML>, <!DOCTYPE xhtml>, <!DOCTYPE svg>, <!DOCTYPE>
DoctypeParts ==
    {Part("top", DoctypeNode(d)) : d \in {<<"html">>, <<"HTML">>, <<"xhtml">>, <<"svg">>, <<>>}}

TitleElement(text) ==
    Element("title", <<>>, IF text = <<>> THEN <<>> ELSE <<TextNode(text)>>)

\* <title> about x </title>, a <title> of white space, <title></title>,
\* <title>x</title>, and a <title> below a <div> of the body.
TitleParts ==
    { Part("head", TitleElement(<<" ", "about", " ", "x", "\n">>)),
      Part("head", TitleElement(<<" ", "\t">>)),
      Part("head", TitleElement(<<>>)),
      Part("head", TitleElement(<<"x">>)),
      Part("body", Element("div", <<>>, <<TitleElement(<<"page">>)>>)) }

Heading(name, attr, kids) == Element(name, attr, kids)

\* Headings: plain, with attributes and nested content, below and inside
\* other elements, and <hr>, which is no heading.
HeadingParts ==
    { Part("body", Heading("h1", <<>>, <<TextNode(<<"x">>)>>)),
      Part("body", Heading("h2", <<Attribute("class", <<"x">>)>>,
                           <<Element("span", <<>>, <<TextNode(<<"x">>)>>)>>)),
      Part("body", Element("div", <<>>,
              <<Heading("h1", <<>>,
                   <<Element("div", <<>>, <<Heading("h6", <<>>, <<>>)>>)>>)>>)),
      Part("body", Element("section", <<>>,
              <<Heading("h3", <<>>, <<>>), Heading("h4", <<>>, <<>>),
                Heading("h5", <<>>, <<>>), Heading("h3", <<>>, <<>>)>>)),
      Part("body", Element("hr", <<>>, <<>>)) }

Input(type) ==
    Element("input", <<Attribute("name", <<"x">>), Attribute("type", <<type>>)>>, <<>>)
Form(kids) == Element("form", <<>>, kids)

\* Forms with a password input, with an email input below a <div>, with a
\* text input only, without inputs, and a password input outside every form.
FormParts ==
    { Part("body", Form(<<Input("password")>>)),
      Part("body", Form(<<Element("div", <<>>, <<Input("text"), Input("email")>>)>>)),
      Part("body", Form(<<Input("text")>>)),
      Part("body", Form(<<>>)),
      Part("body", Input("password")) }

Parts == TitleParts \cup HeadingParts \cup FormParts

\* The pages of up to max parts: at most one doctype, first, then the parts.
PartSeqs(max) ==
    LET rest == UNION {[1..n -> Parts] : n \in 0..max}
    IN  rest \cup {<<d>> \o r : d \in DoctypeParts, r \in rest}

\* The nodes of the parts put at a place, in their order.
NodesAt(parts, at) ==
    LET there == SelectSeq(parts, LAMBDA part : part.at = at)
    IN  [i \in 1..Len(there) |-> there[i].node]

\* The tree html.Parse builds of the parts.
BuildPage(parts) ==
    DocumentNode(NodesAt(parts, "top") \o
                 <<Element("html", <<>>,
                     <<Element("head", <<>>, NodesAt(parts, "head")),
                       Element("body", <<>>, NodesAt(parts, "body"))>>)>>)

InitPage ==
    /\ InitSystem
    /\ aItems \in PartSeqs(MaxParts)
    /\ aTarget = TargetPage
    /\ aResult = NewCrawlResult
    /\ aDone = FALSE

AnalyzePage ==
    /\ ~aDone
    /\ aResult' = extractAll(BuildPage(aItems), aTarget)
    /\ aDone' = TRUE
    /\ UNCHANGED <<aItems, aTarget, system>>

NextPage == AnalyzePage

SpecPage == InitPage /\ [][NextPage]_vars

\* ------------------------------------------------------------------------
\* The crawl run: fetch, errors, status
\* ------------------------------------------------------------------------

Runs == DOMAIN runs

\* performCrawl has returned its result to CrawlURL.
Returned(run) == run.crawl = "ok"

\* C1: performCrawl returns a result only when the response status is
\* exactly 200; for any other status (3xx, 4xx, 5xx, 2xx other than 200) it
\* returns an error and no CrawlResult, and neither extraction nor a link
\* check is performed.
C1_ResultOnlyOnStatus200 ==
    \A r \in Runs :
        LET run == runs[r]
        IN  /\ (Returned(run) \/ run.result # <<>> \/ run.parsed \/ run.heads > 0)
                  => run.resp = StatusOK
            /\ (run.gets > 0 /\ run.resp # 0 /\ run.resp # StatusOK)
                  => /\ run.crawl = "error"
                     /\ run.crawlErr = "status"
                     /\ run.result = <<>>
                     /\ ~run.parsed
                     /\ run.heads = 0
                     /\ run.created = 0

\* A run whose GET was answered 204, a 2xx other than 200, has ended.
C1_Witness ==
    \E r \in Runs :
        /\ runs[r].pc = "done"
        /\ runs[r].resp = 204
        /\ runs[r].crawl = "error"

C3_NoErrorAfterStatus200 ==
    \A r \in Runs : runs[r].resp = StatusOK => runs[r].crawl # "error"

\* C3: performCrawl returns an error only when the GET failed, when its
\* status was not 200, or when html.Parse could not read the body; once the
\* body is parsed, every outcome of extraction and link verification is
\* absorbed into the returned result, and an error never carries a result.
C3_ErrorsOnlyFromFetchAndParse ==
    \A r \in Runs :
        LET run == runs[r]
        IN  /\ run.crawl = "error"
                  => /\ run.crawlErr \in {"fetch", "status", "parse"}
                     /\ run.result = <<>>
                     /\ ~run.parsed
            /\ run.crawlErr = "parse" => run.resp = StatusOK
            /\ (run.parsed /\ run.pc \in {"save", "savefail", "complete", "done"})
                  => /\ Returned(run)
                     /\ run.result # <<>>
                     /\ run.i > Len(run.result[1].Links)
                     /\ run.result[1].InaccessibleLinks = run.inaccessibleCount

\* performCrawl has returned a result one of whose link checks failed.
C3_Witness ==
    \E r \in Runs :
        /\ Returned(runs[r])
        /\ runs[r].heads > 0
        /\ \E k \in DOMAIN runs[r].result[1].Links :
              /\ ~Unverifiable(runs[r].result[1].Links[k])
              /\ runs[r].result[1].Links[k].StatusCode = 0
              /\ ~runs[r].result[1].Links[k].IsAccessible

\* The run of SpecSolo has ended, on a URL that was not completed.
SoloEnded ==
    /\ runs[1].pc = "done"
    /\ runs[1].Status \notin {"", "completed"}

\* The CrawlResult rows of URL id.
ResultsOf(id) == {k \in DOMAIN crawlResults : crawlResults[k].URLID = id}

StartRequest(id) ==
    /\ Len(runs') = Len(runs) + 1
    /\ runs'[Len(runs')].id = id

\* C5: once a URL's status is "error" it stays "error" in every later state
\* until a start request for that URL is received.
C5_ErrorIsTerminal ==
    [][\A id \in IDs :
          urls[id].Status = "error" => (urls'[id].Status = "error" \/ StartRequest(id))]_vars

\* The status of the URL of run r is "completed" or "error".
Settled(r) == r \in Runs /\ urls[runs[r].id].Status \in {"completed", "error"}

\* A First or Update statement of run r has failed.
StatementFailed(r) == r \in Runs /\ runs[r].stmtFailed

\* The crawl run r has been started and has not ended.
InFlight(r) == r \in Runs /\ runs[r].pc # "done"

LinksOf(run) == IF run.result = <<>> THEN <<>> ELSE run.result[1].Links

\* checkLinkAccessibility has returned.
Verified(run) == run.parsed /\ run.pc \in {"save", "savefail", "complete", "done"}

\* The scheme of a URL string.
SchemeOf(url) == Parse(url).url.Scheme

StartsWithHttp(url) ==
    \/ HasPrefix(url, <<"http", ":", "/", "/">>)
    \/ HasPrefix(url, <<"https", ":", "/", "/">>)

\* The link a turn of the loop was about.
LinkOf(run, check) == LinksOf(run)[check.link]

C16_AccessibleIffAnsweredBelow400 ==
    \A r \in Runs : \A j \in DOMAIN runs[r].checks :
        LET check == runs[r].checks[j]
            link == LinkOf(runs[r], check)
        IN  /\ link.IsAccessible <=> (check.answered /\ check.code < 400)
            /\ link.IsAccessible <=> link.StatusCode \in 100..399
            /\ check.answered => link.StatusCode = check.code
            /\ ~check.answered => link.StatusCode = 0 /\ ~link.IsAccessible

\* A run has had one HEAD answered 399 and another answered 400.
C16_Witness ==
    \E r \in Runs : \E j, k \in DOMAIN runs[r].checks :
        /\ runs[r].checks[j].code = 399
        /\ LinkOf(runs[r], runs[r].checks[j]).IsAccessible
        /\ runs[r].checks[k].code = 400
        /\ ~LinkOf(runs[r], runs[r].checks[k]).IsAccessible

\* A HEAD request of the run has failed.
HasFailedCheck(run) ==
    \E j \in DOMAIN run.checks : run.checks[j].head /\ ~run.checks[j].answered

\* C17: a failed link check is recorded on the link only: the analysis
\* returns no error, the remaining links are checked, and the URL's status
\* does not become "error" (unless saving the result fails).
C17_FailedCheckIsOnlyData ==
    \A r \in Runs :
        LET run == runs[r]
        IN  HasFailedCheck(run) =>
                /\ run.crawl # "error" /\ run.crawlErr = "" /\ run.pc # "fail"
                /\ \A j \in DOMAIN run.checks :
                      (run.checks[j].head /\ ~run.checks[j].answered)
                          => /\ LinkOf(run, run.checks[j]).StatusCode = 0
                             /\ ~LinkOf(run, run.checks[j]).IsAccessible
                /\ Verified(run) =>
                      \A k \in DOMAIN LinksOf(run) :
                          \E j \in DOMAIN run.checks : run.checks[j].link = k
                /\ (run.pc = "done" /\ urls[run.id].Status = "error") => run.err = "save"
                /\ (run.pc = "done" /\ run.err = "") => urls[run.id].Status = "completed"

\* A run whose first link check failed has checked the next link and has
\* completed the URL.
C17_Witness ==
    \E r \in Runs :
        /\ runs[r].pc = "done"
        /\ Len(runs[r].checks) = 2
        /\ runs[r].checks[1].head /\ ~runs[r].checks[1].answered
        /\ runs[r].checks[2].answered
        /\ urls[runs[r].id].Status = "completed"

\* The number of links among the first n that are not accessible.
InaccessibleAmong(links, n) == Cardinality({k \in 1..n : ~links[k].IsAccessible})

\* C18: when link verification has finished, the inaccessible count is the
\* number of LinkRecords whose isAccessible is false; while it runs, the
\* running count is that number among the links already checked.
C18_CountIsNumberOfInaccessible ==
    \A r \in Runs :
        LET run == runs[r]
        IN  /\ Verified(run) =>
                  run.result[1].InaccessibleLinks
                      = InaccessibleAmong(LinksOf(run), Len(LinksOf(run)))
            /\ run.pc = "links" =>
                  run.inaccessibleCount = InaccessibleAmong(LinksOf(run), run.i - 1)

\* Verification has finished with a skipped link and a link answered 400,
\* both counted.
C18_Witness ==
    \E r \in Runs :
        /\ Verified(runs[r])
        /\ Len(runs[r].checks) = 2
        /\ \E j, k \in 1..2 : ~runs[r].checks[j].head /\ runs[r].checks[k].code = 400
        /\ runs[r].result[1].InaccessibleLinks = 2

Unverified(result) ==
    [result EXCEPT
        !.URLID = 0,
        !.InaccessibleLinks = 0,
        !.Links = [k \in DOMAIN @ |-> [@[k] EXCEPT !.StatusCode = 0, !.IsAccessible = FALSE]]]

\* C20: link verification preserves the link list: same length, same
\* order, same URL and classification of every record; it writes only
\* statusCode and isAccessible of the records and the inaccessible count.
C20_VerificationKeepsLinks ==
    \A r \in Runs :
        LET run == runs[r]
        IN  (run.parsed /\ run.pc \in {"links", "save", "savefail", "complete"})
                => Unverified(run.result[1]) = extractAll(run.body[1], run.URL)

\* Verification has finished on two links, one accessible and one not.
C20_Witness ==
    \E r \in Runs :
        /\ runs[r].pc = "save"
        /\ Len(LinksOf(runs[r])) = 2
        /\ runs[r].result[1].InaccessibleLinks = 1
        /\ \E k \in 1..2 : LinksOf(runs[r])[k].StatusCode = 200

\* C21: redirects are not followed during link verification: when the
\* first HEAD request of a link is answered with a 3xx status, no further
\* request is issued for the link, the recorded status is that 3xx status
\* and the link is accessible.
C21_RedirectNotFollowed ==
    \A r \in Runs :
        \A k \in DOMAIN runs[r].wire :
            LET sent == runs[r].wire[k]
                link == LinksOf(runs[r])[sent.link]
            IN  sent.first \in 300..399
                    => /\ sent.requests = 1
                       /\ link.StatusCode = sent.first
                       /\ link.IsAccessible

\* C24: within a run the stages are ordered fetch, extraction, link
\* verification, return: a link is checked only after the GET of the page
\* was answered 200 and the page was parsed, never when the fetch failed;
\* the links are checked one after the other in list order; and the result
\* is returned and inserted only when every link has been checked.
C24_StagesInOrder ==
    \A r \in Runs :
        LET run == runs[r]
        IN  /\ (run.heads > 0 \/ run.checks # <<>> \/ run.wire # <<>>)
                  => run.gets = 1 /\ run.resp = StatusOK /\ run.parsed
            /\ run.parsed => run.gets = 1 /\ run.resp = StatusOK
            /\ run.crawlErr \in {"fetch", "status"}
                  => run.heads = 0 /\ run.checks = <<>> /\ ~run.parsed
            /\ \A j \in DOMAIN run.checks : run.checks[j].link = j
            /\ \A j, k \in DOMAIN run.wire : j < k => run.wire[j].link < run.wire[k].link
            /\ (run.crawl = "ok" \/ run.pc \in {"save", "savefail", "complete"} \/ run.created > 0)
                  => /\ run.parsed
                     /\ Len(run.checks) = Len(LinksOf(run))

\* A result was inserted after both links of the page were checked with a
\* HEAD request each.
C24_Witness ==
    \E r \in Runs :
        /\ runs[r].created = 1
        /\ StoredResultsOf(runs[r].id) # <<>>
        /\ runs[r].heads = 2
        /\ Len(runs[r].checks) = 2

\* The number of links of a result that are classified as type.
LinksOfType(result, type) == Len(SelectSeq(result.Links, LAMBDA link : link.Type = type))

\* The counters of a result agree with its link list.
CountersAgree(result) ==
    /\ result.InternalLinks = LinksOfType(result, "internal")
    /\ result.ExternalLinks = LinksOfType(result, "external")
    /\ result.InternalLinks + result.ExternalLinks = Len(result.Links)
    /\ result.InaccessibleLinks \in 0..Len(result.Links)

\* C30: the link counters of every result are consistent with its link
\* list, in the result a run holds from extraction on and in every stored
\* result: the internal count is the number of links classified internal,
\* the external count the number classified external, their sum the length
\* of the list, and the inaccessible count is at most that length.
C30_CountersAgreeWithLinks ==
    /\ \A r \in Runs : runs[r].result # <<>> => CountersAgree(runs[r].result[1])
    /\ \A k \in DOMAIN crawlResults : CountersAgree(crawlResults[k])

\* A result is stored with an internal and an external link, one of them
\* inaccessible.
C30_Witness ==
    \E k \in DOMAIN crawlResults :
        /\ crawlResults[k].InternalLinks = 1
        /\ crawlResults[k].ExternalLinks = 1
        /\ crawlResults[k].InaccessibleLinks = 1

\* ------------------------------------------------------------------------
\* The URL API: what is stored, crawled, stopped and deleted
\* ------------------------------------------------------------------------

\* An absolute URL with the scheme https and a host.
IsNormalized(url) ==
    LET parsed == Parse(url)
    IN  ~parsed.err /\ parsed.url.Scheme = <<"https">> /\ parsed.url.Host # <<>>

\* C22: every target of an analysis run is an absolute URL with a scheme
\* and a host: what ValidateAndSanitizeURL returns without error has the
\* scheme https and a host, every URL record AddURL has stored holds such a
\* URL, and so does the record of every crawl that was started.
C22_TargetsAreNormalized ==
    /\ \A raw \in RawURLs :
          ~ValidateAndSanitizeURL(raw).err => IsNormalized(ValidateAndSanitizeURL(raw).url)
    /\ \A id \in IDs : urls[id].exists => IsNormalized(urls[id].URL)
    /\ \A r \in Runs : IsNormalized(urls[runs[r].id].URL)

\* The status a run leaves its URL in when nothing else writes it, as far
\* as the run has come: status is the URL's status now.
StatusOfRunAlone(run, status) ==
    CASE run.pc = "find" -> status \in {"running", "queued"}
      [] run.pc = "mark" -> status = run.Status
      [] run.pc \in {"get", "parse", "links", "fail", "save", "savefail", "complete"}
            -> status = "running"
      [] run.pc = "done" ->
            CASE run.err = "find" -> status \in {"running", "queued"}
              [] run.err = "mark" -> status = run.Status
              [] run.err \in {"crawl", "save"}
                    -> status = IF run.stmtFailed THEN "running" ELSE "error"
              [] run.err = "complete" -> status = "running"
              [] run.err = "" -> status = "completed"

\* The crawl results a run leaves for its URL when nothing else writes
\* them: its own result, once saved.
ResultsOfRunAlone(run) == IF run.created = 1 THEN <<run.result[1]>> ELSE <<>>

\* C23: concurrent runs on different URLs are independent: in every
\* interleaving of two CrawlURL runs, each URL's status and its stored
\* crawl results are at every moment, and at the end, what its own run
\* alone leaves; neither run writes the other URL's status or result.
C23_RunsAreIndependent ==
    \A r \in Runs :
        /\ StatusOfRunAlone(runs[r], urls[runs[r].id].Status)
        /\ StoredResultsOf(runs[r].id) = ResultsOfRunAlone(runs[r])

\* Both runs have ended with their URLs completed, the second run's result
\* saved before the first's, and the two results differ.
C23_Witness ==
    /\ \A r \in {1, 2} : r \in Runs /\ runs[r].pc = "done" /\ runs[r].created = 1
    /\ urls[1].Status = "completed"
    /\ urls[2].Status = "completed"
    /\ Len(crawlResults) = 2
    /\ crawlResults[1].URLID = 2
    /\ crawlResults[1] # [crawlResults[2] EXCEPT !.URLID = 2]

\* C25: one URL has at most one crawl result: in every reachable state at
\* most one row of crawl_results holds any given URL ID.
C25_AtMostOneResultPerURL ==
    \A id \in IDs : Len(StoredResultsOf(id)) <= 1

\* The run is crawling: it is about to fetch its URL, or has fetched it and
\* has not returned from performCrawl.
Crawling(run) == run.pc \in {"get", "parse", "links"}

\* C26: at most one crawl run is in flight for a URL at any time: no two
\* runs of one URL are crawling at once.
C26_OneRunPerURL ==
    \A q, r \in Runs :
        (q # r /\ runs[q].id = runs[r].id) => ~(Crawling(runs[q]) /\ Crawling(runs[r]))

\* C27: StopProcessing stops the processing of a URL: once the status is
\* "queued" it stays "queued", and no crawl result is created for the URL,
\* until a start request for the URL is received.
C27_StopStopsProcessing ==
    [][\A id \in IDs :
          (urls[id].exists /\ urls[id].Status = "queued")
              => \/ StartRequest(id)
                 \/ /\ urls'[id].Status = "queued"
                    /\ StoredResultsOf(id)' = StoredResultsOf(id)]_vars

\* The URL id was created and has been deleted.
Deleted(id) == id <= lastID /\ ~urls[id].exists

\* C28: deleting a URL removes its analysis data: in every state in which
\* a URL has been deleted, no crawl result, and so no link, of that URL is
\* stored.
C28_DeleteRemovesResults ==
    \A id \in IDs : Deleted(id) => StoredResultsOf(id) = <<>>

\* The AddURL requests that were answered.
Answers == {h \in DOMAIN adds : adds[h].pc = "done"}

\* No two rows of the urls table hold the same URL string.
UniqueURLs == \A i, j \in 1..lastID : urls[i].URL = urls[j].URL => i = j

\* Records are created and crawls started by the requests answered 201,
\* one each.
OnlyCreatedAdds ==
    /\ lastID = Cardinality({h \in Answers : adds[h].code = 201})
    /\ Len(runs) = lastID

\* C29 as stated: stored URLs are unique, and an AddURL whose query was run
\* and whose URL is stored when it answers answers with a conflict, creates
\* no record and starts no crawl.
C29_StoredAnsweredWithConflict ==
    /\ UniqueURLs
    /\ OnlyCreatedAdds
    /\ \A h \in Answers :
          (adds[h].stored /\ adds[h].lookup # "failed") => adds[h].code = 409

\* C29: stored URLs are unique, records are created and crawls started
\* only by the requests answered 201, and an AddURL whose URL is stored
\* when it answers is answered with 409 when its query found the record and
\* with 500 otherwise (the record was inserted after the query, or the
\* query failed); in both cases it creates nothing.
C29_StoredAnsweredWithConflictOrInsertRefused ==
    /\ UniqueURLs
    /\ OnlyCreatedAdds
    /\ \A h \in Answers :
          /\ adds[h].stored => adds[h].code = IF adds[h].lookup = "found" THEN 409 ELSE 500
          /\ adds[h].lookup = "found" => adds[h].code = 409

\* Two requests for one URL ran their queries before either inserted: one
\* created the record, the other was refused by the unique index.
C29_Witness ==
    \E g, h \in Answers :
        /\ adds[g].url = adds[h].url
        /\ adds[g].code = 201
        /\ adds[h].code = 500
        /\ adds[h].lookup = "absent"
        /\ adds[h].stored

\* ------------------------------------------------------------------------
\* Title, HTML version, headings, login form: what the page determines
\* ------------------------------------------------------------------------

\* The nodes of a tree in document (pre-order) order.
RECURSIVE PreOrder(_)
RECURSIVE PreOrderKids(_)
PreOrderKids(kids) ==
    IF kids = <<>> THEN <<>> ELSE PreOrder(Head(kids)) \o PreOrderKids(Tail(kids))
PreOrder(n) == <<n>> \o PreOrderKids(n.Kids)

ThePage == BuildPage(aItems)

IsNamed(n, name) == n.Type = "element" /\ n.Data = name

\* A <title> element whose first child is a text node.
IsTitleWithText(n) == IsNamed(n, "title") /\ n.Kids # <<>> /\ n.Kids[1].Type = "text"
TitlesWithText(doc) == SelectSeq(PreOrder(doc), IsTitleWithText)

\* C11: the title is the trimmed text of the first <title> element, in
\* document order, whose first child is a text node, and is empty when
\* there is no such element.
C11_TitleOfFirstTitleElement ==
    aDone =>
        aResult.Title = IF TitlesWithText(ThePage) = <<>> THEN <<>>
                        ELSE TrimSpace(TitlesWithText(ThePage)[1].Kids[1].Data)

\* A doctype node whose content, in lower case, contains "html".
IsHtmlDoctype(n) ==
    /\ n.Type = "doctype"
    /\ \E i \in 1..Len(n.Data) : LowerTok(n.Data[i]) \in HtmlTok

\* C12: the HTML version is "HTML5" exactly when the document has a
\* doctype node whose content contains "html", compared without case, and
\* "Unknown" in every other case.
C12_Html5IffHtmlDoctype ==
    aDone =>
        /\ aResult.HTMLVersion \in {"HTML5", "Unknown"}
        /\ aResult.HTMLVersion = "HTML5"
              <=> \E i \in 1..Len(PreOrder(ThePage)) : IsHtmlDoctype(PreOrder(ThePage)[i])

\* A page whose doctype is in upper case has been labelled "HTML5".
C12_Witness ==
    /\ aDone
    /\ aItems # <<>>
    /\ aItems[1].node = DoctypeNode(<<"HTML">>)
    /\ aResult.HTMLVersion = "HTML5"

HeadingName(k) == <<"h1", "h2", "h3", "h4", "h5", "h6">>[k]

\* The number of elements of a name in a tree.
CountNamed(doc, name) == Len(SelectSeq(PreOrder(doc), LAMBDA n : IsNamed(n, name)))

\* C13: for every level k in 1..6 the hk count is the number of elements
\* named hk anywhere in the tree.
C13_HeadingCountsAreElementCounts ==
    aDone => \A k \in 1..6 : aResult.Headings[k] = CountNamed(ThePage, HeadingName(k))

\* A page with an <h6> inside an <h1> inside a <div>, twice, and an <h2>
\* with attributes has been counted.
C13_Witness ==
    /\ aDone
    /\ aResult.Headings[1] = 2
    /\ aResult.Headings[6] = 2
    /\ aResult.Headings[2] = 1

\* An <input> element whose type attribute is "password" or "email".
IsLoginInput(n) ==
    /\ IsNamed(n, "input")
    /\ \E i \in 1..Len(n.Attr) :
          n.Attr[i].Key = "type" /\ n.Attr[i].Val \in {<<"password">>, <<"email">>}

\* A <form> element with such an <input> at any depth below it.
IsLoginForm(n) ==
    /\ IsNamed(n, "form")
    /\ \E i \in 1..Len(PreOrderKids(n.Kids)) : IsLoginInput(PreOrderKids(n.Kids)[i])

\* C14: hasLoginForm is true exactly when some <form> element of the
\* document contains, at any depth, an <input> of type "password" or
\* "email".
C14_LoginFormIffFormWithLoginInput ==
    aDone =>
        (aResult.HasLoginForm
            <=> \E i \in 1..Len(PreOrder(ThePage)) : IsLoginForm(PreOrder(ThePage)[i]))

\* A page with a password input outside every form and a form with a text
\* input only has been found to have no login form.
C14_Witness ==
    /\ aDone
    /\ ~aResult.HasLoginForm
    /\ \E i, j \in 1..Len(aItems) :
          /\ aItems[i].node = Input("password")
          /\ aItems[j].node = Form(<<Input("text")>>)

\* ------------------------------------------------------------------------
\* Link extraction: what the items of a document say, read off the items
\* ------------------------------------------------------------------------

IsHrefAttr(attr) == attr.Key = "href"
IsAnchor(n) == n.Type = "element" /\ n.Data = "a"

\* The values of the href attributes of an <a> element, in attribute order.
AnchorHrefs(a) ==
    LET hrefAttrs == SelectSeq(a.Attr, IsHrefAttr)
    IN  [i \in 1..Len(hrefAttrs) |-> hrefAttrs[i].Val]

\* The <a> elements of an item: the item itself or its children.
ItemAnchors(item) ==
    IF IsAnchor(item) THEN <<item>> ELSE SelectSeq(item.Kids, IsAnchor)

RECURSIVE BodyAnchors(_)
BodyAnchors(items) ==
    IF items = <<>> THEN <<>> ELSE ItemAnchors(Head(items)) \o BodyAnchors(Tail(items))

RECURSIVE HrefsOfAnchors(_)
HrefsOfAnchors(anchors) ==
    IF anchors = <<>> THEN <<>>
    ELSE AnchorHrefs(Head(anchors)) \o HrefsOfAnchors(Tail(anchors))

\* An href that is kept: not empty, not starting with "#", parseable.
Retainable(href) == href # <<>> /\ Head(href) # "#" /\ ~Parse(href).err
Unparseable(href) == href # <<>> /\ Head(href) # "#" /\ Parse(href).err
HasRetainableHref(a) == \E i \in 1..Len(AnchorHrefs(a)) : Retainable(AnchorHrefs(a)[i])

\* The kept hrefs of a document body, one per href attribute, in document order.
RetainedHrefs(items) == SelectSeq(HrefsOfAnchors(BodyAnchors(items)), Retainable)
\* The <a> elements of a document body that carry a kept href, in document order.
RetainedAnchors(items) == SelectSeq(BodyAnchors(items), HasRetainableHref)

TargetOrigin == SubSeq(aTarget, 1, 5)
TargetHost == <<aTarget[5]>>
IsAbsoluteHref(href) == Len(href) >= 2 /\ href[1] \in AlphaTok /\ href[2] = ":"
IsProtocolRelative(href) == HasPrefix(href, <<"/", "/">>)
IsRootRelative(href) == HasPrefix(href, <<"/">>) /\ ~IsProtocolRelative(href)

\* C7: every LinkRecord is "internal" exactly when the host of its href
\* resolved against the target is the target's host or empty, and
\* "external" otherwise.
C7_ClassificationByResolvedHost ==
    aDone =>
        LET hrefs == RetainedHrefs(aItems)
            host(k) == ResolveReference(Parse(aTarget).url, Parse(hrefs[k]).url).Host
        IN  /\ Len(aResult.Links) = Len(hrefs)
            /\ \A k \in 1..Len(hrefs) :
                  aResult.Links[k].Type =
                      IF host(k) = TargetHost \/ host(k) = <<>> THEN "internal" ELSE "external"

C7_Witness ==
    /\ aDone
    /\ aTarget = TargetPage
    /\ aItems = <<Anchor(HrefAbout), Anchor(HrefOther), Anchor(<<"mailto", ":", "x">>)>>
    /\ aResult.Links[1].Type = "internal"
    /\ aResult.Links[2].Type = "external"
    /\ aResult.Links[3].Type = "internal"

\* C8: the URL of every LinkRecord is its href resolved against the target:
\* an absolute href is its own URL, a protocol-relative href takes the
\* target's scheme, a root-relative or path-relative href takes the target's
\* scheme and host; https://example.com/page with "/about" gives
\* https://example.com/about.
C8_ResolvedAgainstTarget ==
    aDone =>
        LET hrefs == RetainedHrefs(aItems)
        IN  /\ Len(aResult.Links) = Len(hrefs)
            /\ \A k \in 1..Len(hrefs) :
                  LET href == hrefs[k]
                      url == aResult.Links[k].URL
                  IN  /\ IsAbsoluteHref(href) => url = <<LowerTok(href[1])>> \o Tail(href)
                      /\ IsProtocolRelative(href) => url = <<aTarget[1], ":">> \o href
                      /\ IsRootRelative(href) => url = TargetOrigin \o href
                      /\ ~IsAbsoluteHref(href) /\ ~HasPrefix(href, <<"/">>) =>
                            HasPrefix(url, TargetOrigin \o <<"/">>)
                      /\ aTarget = TargetPage /\ href = HrefAbout =>
                            url = <<"https", ":", "/", "/", "example.com", "/", "about">>

C8_Witness ==
    /\ aDone
    /\ aTarget = TargetPage
    /\ aItems = <<Anchor(HrefAbout), Anchor(<<"/", "/", "other.org", "/", "x">>), Anchor(<<"about">>)>>
    /\ aResult.Links[1].URL = <<"https", ":", "/", "/", "example.com", "/", "about">>
    /\ aResult.Links[2].URL = HrefOther
    /\ aResult.Links[3].URL = <<"https", ":", "/", "/", "example.com", "/", "about">>

\* C9: extraction yields exactly one LinkRecord for each <a> element that
\* carries a kept href (not empty, not starting with "#", parseable), in
\* document order, and none for any other anchor.
C9_OneLinkPerAnchor ==
    aDone =>
        LET anchors == RetainedAnchors(aItems)
            first(a) == SelectSeq(AnchorHrefs(a), Retainable)[1]
        IN  /\ Len(aResult.Links) = Len(anchors)
            /\ \A k \in 1..Len(anchors) :
                  aResult.Links[k].URL =
                      String(ResolveReference(Parse(aTarget).url, Parse(first(anchors[k])).url))

\* C10: an anchor whose href does not parse adds no LinkRecord and changes no
\* counter; the result is that of the document without that anchor.
IsMalformedAnchor(item) ==
    /\ IsAnchor(item)
    /\ Len(AnchorHrefs(item)) = 1
    /\ Unparseable(AnchorHrefs(item)[1])
NotMalformedAnchor(item) == ~IsMalformedAnchor(item)

C10_MalformedHrefSkipped ==
    aDone =>
        LET without == extractAll(BuildDoc(SelectSeq(aItems, NotMalformedAnchor)), aTarget)
        IN  /\ aResult = without
            /\ Len(aResult.Links) = Len(RetainedHrefs(aItems))

C10_Witness ==
    /\ aDone
    /\ aItems = <<Anchor(HrefAbout), Anchor(HrefMalformed), Anchor(HrefOther)>>
    /\ Len(aResult.Links) = 2
    /\ aResult.InternalLinks + aResult.ExternalLinks = 2

====
